---------------------------- MODULE Spec2Model ----------------------------
(***************************************************************************)
(* Model of the MAX31855 Arduino driver (class MAX31855): the transport    *)
(* (begin, readRawData) step by step on the chip-select, clock and data    *)
(* lines or the SPI peripheral, and the decoders (detectThermocouple,      *)
(* getChipID, getTemperature, getColdJunctionTemperature) on the 32-bit    *)
(* frame.                                                                  *)
(*                                                                         *)
(* An int32_t is an integer in -2^31 .. 2^31-1.  A float result is held as *)
(* an exact number of sixteenths of a degree: every value the decoders     *)
(* produce (count * 0.25, count * 0.0625, 2000) is a multiple of 1/16.     *)
(***************************************************************************)
EXTENDS Integers, Sequences, FiniteSets, TLC

(***************************************************************************)
(* Constants of MAX31855.h                                                 *)
(***************************************************************************)
MAX31855_CONVERSION_POWER_UP_TIME == 200
MAX31855_CONVERSION_TIME == 100
MAX31855_ID == 31855
MAX31855_FORCE_READ_DATA == 7
MAX31855_ERROR == 2000
MAX31855_THERMOCOUPLE_OK == 0
MAX31855_THERMOCOUPLE_SHORT_TO_VCC == 1
MAX31855_THERMOCOUPLE_SHORT_TO_GND == 2
MAX31855_THERMOCOUPLE_NOT_CONNECTED == 3
MAX31855_THERMOCOUPLE_UNKNOWN == 4

\* 1 / 0.0625: float results are counted in sixteenths of a degree
SixteenthsPerDegree == 16
\* MAX31855_THERMOCOUPLE_RESOLUTION (0.25) in sixteenths
MAX31855_THERMOCOUPLE_RESOLUTION == SixteenthsPerDegree \div 4
\* MAX31855_COLD_JUNCTION_RESOLUTION (0.0625) in sixteenths
MAX31855_COLD_JUNCTION_RESOLUTION == SixteenthsPerDegree \div 16
\* MAX31855_ERROR as a float result
ErrorResult == MAX31855_ERROR * SixteenthsPerDegree

\* delay(1) of readRawData
StopPulseTime == 1

LOW == 0
HIGH == 1

(***************************************************************************)
(* Bounds of the model                                                     *)
(***************************************************************************)
\* readRawData calls after which no further call that starts a transaction is
\* made; the readRawData calls nested in a call already made are not cut off
MaxReads == 2
\* calls of begin(), per run
MaxBegins == 2

(***************************************************************************)
(* int32_t arithmetic                                                      *)
(***************************************************************************)
\* value >> n on int32_t (arithmetic shift, as gcc does on every Arduino target)
Shr(value, n) ==
  IF n <= 30 THEN value \div (2 ^ n) ELSE (value \div (2 ^ 30)) \div (2 ^ (n - 30))

\* value << n on int32_t, the bits shifted past bit 31 lost (1 <= n <= 30)
Shl(value, n) ==
  LET keep == value % (2 ^ (31 - n))
      top  == (value \div (2 ^ (31 - n))) % 2
  IN  (keep * (2 ^ n) - top * (2 ^ 30)) - top * (2 ^ 30)

RECURSIVE BitOr(_, _)
\* a | b on two's complement integers
BitOr(a, b) ==
  IF a = 0 THEN b
  ELSE IF b = 0 THEN a
  ELSE IF a = -1 \/ b = -1 THEN -1
  ELSE 2 * BitOr(a \div 2, b \div 2) + (IF a % 2 = 1 \/ b % 2 = 1 THEN 1 ELSE 0)

RECURSIVE BitAnd(_, _)
\* a & b on two's complement integers
BitAnd(a, b) ==
  IF a = 0 \/ b = 0 THEN 0
  ELSE IF a = -1 THEN b
  ELSE IF b = -1 THEN a
  ELSE 2 * BitAnd(a \div 2, b \div 2) + (a % 2) * (b % 2)

\* Arduino's bitRead(value, bit): ((value) >> (bit)) & 0x01
bitRead(value, bit) == BitAnd(Shr(value, bit), 1)

(***************************************************************************)
(* Decoders: the part of each function after its fetch line                *)
(***************************************************************************)
\* a build that tests D1 before D2
detectThermocoupleMux_GndFirst(b2, b1, b0) ==
  IF b1 = 1 THEN MAX31855_THERMOCOUPLE_SHORT_TO_GND
  ELSE IF b2 = 1 THEN MAX31855_THERMOCOUPLE_SHORT_TO_VCC
  ELSE IF b0 = 1 THEN MAX31855_THERMOCOUPLE_NOT_CONNECTED
  ELSE MAX31855_THERMOCOUPLE_UNKNOWN

\* detectThermocouple, lines 130-137
detectThermocoupleMux(b2, b1, b0) ==
  IF b2 = 1 THEN MAX31855_THERMOCOUPLE_SHORT_TO_VCC
  ELSE IF b1 = 1 THEN MAX31855_THERMOCOUPLE_SHORT_TO_GND
  ELSE IF b0 = 1 THEN MAX31855_THERMOCOUPLE_NOT_CONNECTED
  ELSE MAX31855_THERMOCOUPLE_UNKNOWN

\* a build that tests D17 in place of D16
detectThermocoupleBody_Bit17(rawValue) ==
  IF bitRead(rawValue, 17) = 1
    THEN detectThermocoupleMux(bitRead(rawValue, 2), bitRead(rawValue, 1),
                               bitRead(rawValue, 0))
    ELSE MAX31855_THERMOCOUPLE_OK

\* detectThermocouple, lines 130, 137
detectThermocoupleBody(rawValue) ==
  IF bitRead(rawValue, 16) = 1
    THEN detectThermocoupleMux(bitRead(rawValue, 2), bitRead(rawValue, 1),
                               bitRead(rawValue, 0))
    ELSE MAX31855_THERMOCOUPLE_OK

\* a build that accepts the frame when either identity bit is low
getChipIDBody_Or(rawValue) ==
  IF bitRead(rawValue, 17) = 0 \/ bitRead(rawValue, 3) = 0
    THEN MAX31855_ID
    ELSE 0

\* a build that reports the identity without testing the bits
getChipIDBody_Always(rawValue) == MAX31855_ID

\* getChipID, lines 154-156
getChipIDBody(rawValue) ==
  IF bitRead(rawValue, 17) = 0 /\ bitRead(rawValue, 3) = 0
    THEN MAX31855_ID
    ELSE 0

\* a build whose rawValue is unsigned: the shift brings zeros in at the top
getTemperatureValue_Unsigned(rawValue) ==
  BitAnd(Shr(rawValue, 18), 16383) * MAX31855_THERMOCOUPLE_RESOLUTION

\* getTemperature, lines 184-186: (float)(rawValue >> 18) * 0.25
getTemperatureValue(rawValue) ==
  Shr(rawValue, 18) * MAX31855_THERMOCOUPLE_RESOLUTION

\* getColdJunctionTemperature, lines 208-211:
\* (float)((rawValue & 0x0000FFFF) >> 4) * 0.0625
getColdJunctionTemperatureValue(rawValue) ==
  Shr(BitAnd(rawValue, 65535), 4) * MAX31855_COLD_JUNCTION_RESOLUTION


(***************************************************************************)
(* Frames                                                                  *)
(***************************************************************************)
\* the frame with thermocouple count tc (signed 14-bit) in D31..D18, D17, D16,
\* cold-junction field cj (0..4095) in D15..D4, D3, D2, D1, D0
MkFrame(tc, d17, d16, cj, d3, d2, d1, d0) ==
  tc * 262144 + d17 * 131072 + d16 * 65536 + cj * 16 + d3 * 8 + d2 * 4 + d1 * 2 + d0

\* <<thermocouple count, cold-junction field>> of the frames tried
FieldPairs ==
  { <<0, 0>>, <<400, 401>>, <<-160, 4094>>, <<8000, 2048>>, <<-8192, 2047>>,
    <<8191, 3456>>, <<-1, 4095>>, <<0, 4095>> }

\* the values a caller passes to a decoder: every combination of D17, D16, D3,
\* D2, D1, D0 on each field pair; MkFrame(0,0,0,0,0,1,1,1) is 7, the default
\* argument, MkFrame(0,..,0) the all-zeros and MkFrame(-1,1,1,4095,1,1,1,1) the
\* all-ones frame
ArgFrames ==
  { MkFrame(p[1], d17, d16, p[2], d3, d2, d1, d0) :
      p \in FieldPairs, d17 \in {0, 1}, d16 \in {0, 1}, d3 \in {0, 1},
      d2 \in {0, 1}, d1 \in {0, 1}, d0 \in {0, 1} }

\* the 32 bits the data line may carry in one transaction: a healthy chip
\* (positive, negative), each fault, a frame with D17 or D3 high, a line stuck
\* low or high, and a line that goes high for the last three bits
DeviceFrames ==
  { MkFrame(400, 0, 0, 401, 0, 0, 0, 0), MkFrame(-160, 0, 0, 4095, 0, 0, 0, 0),
    MkFrame(8000, 0, 0, 2048, 0, 0, 0, 0),
    MkFrame(0, 0, 1, 401, 0, 1, 0, 0), MkFrame(0, 0, 1, 401, 0, 0, 1, 0),
    MkFrame(8191, 0, 1, 401, 0, 0, 0, 1), MkFrame(0, 0, 1, 401, 0, 0, 0, 0),
    MkFrame(400, 1, 0, 401, 0, 0, 0, 0), MkFrame(400, 0, 0, 401, 1, 0, 0, 0),
    0, -1, MAX31855_FORCE_READ_DATA }

Decoders ==
  { "detectThermocouple", "getChipID", "getTemperature",
    "getColdJunctionTemperature" }

(***************************************************************************)
(* State                                                                   *)
(***************************************************************************)
VARIABLES
  _useHardwareSPI, _cs, _so, _sck,      \* private members of MAX31855
  instances,                            \* chip-select pins of the objects declared
  pinModes, pinLevels, pinsUsed,        \* pinMode / digitalWrite / digitalRead
  spiBegun, spiInTransaction,           \* the SPI peripheral
  devShift, devIdx, devFrame,           \* the chip's output shift register
  convStart, convOrigin, frameOrigin,   \* the chip's conversion and its result
  now,                                  \* milliseconds, advanced by delay()
  pc, stack, rawValue, rawData, i,      \* control: position, callers, locals
  begins, reads,                        \* begin and readRawData calls so far
  lastOp, lastArg, result,              \* the top-level call and what it returned
  txCount, fetched,                     \* readRawData calls of the top-level call
  polledOk,                             \* the call before was the loop guard, passed
  csTrace, sampleLog, nSamples,         \* chip-select writes and samples of a read
  spiTrace,                             \* SPI peripheral calls of a read
  rxTrace,                              \* what the read in progress received
  sampleClock,                          \* clock line at the samples of a read
  tEnter, tRise, tFall, tLastReturn, tPrevReturn

cfgVars == <<_useHardwareSPI, _cs, _so, _sck, instances>>
pinVars == <<pinModes, pinLevels, pinsUsed>>
spiVars == <<spiBegun, spiInTransaction>>
devVars == <<devShift, devIdx, devFrame, convStart, convOrigin, frameOrigin>>
ctlVars == <<pc, stack, rawValue, rawData, i>>
cntVars == <<begins, reads>>
resVars == <<lastOp, lastArg, result, txCount, fetched>>
rxVars == <<rxTrace, sampleClock>>
trcVars == <<csTrace, sampleLog, nSamples, spiTrace, rxVars>>
timVars == <<tEnter, tRise, tFall, tLastReturn, tPrevReturn>>
vars ==
  <<polledOk, cfgVars, pinVars, spiVars, devVars, now, ctlVars, cntVars, resVars, trcVars,
    timVars>>

\* pin numbers of the demonstration programs: MAX31855 myMAX31855(3, 4, 7)
DemoCs == 3
DemoSo == 4
DemoSck == 7
\* chip-select of the second sensor of the two-sensor program: myMAX31855_02(4)
DemoCs2 == 4
Pins == {0, DemoCs, DemoSo, DemoSck}

\* MAX31855(cs, so, sck) and MAX31855(cs)
Constructor(hw) ==
  /\ _useHardwareSPI = hw
  /\ _cs = DemoCs
  /\ _so = IF hw THEN 0 ELSE DemoSo
  /\ _sck = IF hw THEN 0 ELSE DemoSck
  /\ instances = {DemoCs}

\* the board and the chip after reset, before setup() runs
PowerOn ==
  /\ pinModes = [p \in Pins |-> "UNSET"]
  /\ pinLevels = [p \in Pins |-> LOW]
  /\ pinsUsed = {}
  /\ spiBegun = FALSE
  /\ spiInTransaction = FALSE
  /\ devShift = 0
  /\ devIdx = 32
  /\ devFrame = 0
  /\ convStart = -1
  /\ convOrigin = "none"
  /\ frameOrigin = "none"
  /\ now = 0
  /\ pc = "idle"
  /\ stack = <<>>
  /\ rawValue = 0
  /\ rawData = 0
  /\ i = 0
  /\ begins = 0
  /\ reads = 0
  /\ lastOp = "none"
  /\ lastArg = 0
  /\ result = 0
  /\ txCount = 0
  /\ fetched = <<>>
  /\ polledOk = FALSE
  /\ csTrace = <<>>
  /\ sampleLog = {}
  /\ nSamples = 0
  /\ spiTrace = <<>>
  /\ rxTrace = <<>>
  /\ sampleClock = {}
  /\ tEnter = 0
  /\ tRise = 0
  /\ tFall = 0
  /\ tLastReturn = -1
  /\ tPrevReturn = -1

Init ==
  /\ \E hw \in BOOLEAN : Constructor(hw)
  /\ PowerOn

(***************************************************************************)
(* Lines and the chip                                                      *)
(***************************************************************************)
\* the chip on a chip-select edge (NOTE of readRawData: "forcing CS low
\* immediately stops any conversion process, force CS high to initiate a new
\* measurement process"). A falling edge stops the conversion in progress,
\* enables the serial output and loads the shift register with the 32 bits of
\* this transaction: the result of the conversion just stopped when it had the
\* conversion time to finish, of an earlier conversion otherwise. A rising edge
\* disables the serial output and starts a conversion; convOrigin is the
\* statement that wrote the edge.
DeviceOnCs(level) ==
  IF level = LOW /\ pinLevels[_cs] = HIGH
    THEN /\ devShift' \in DeviceFrames
         /\ devIdx' = 0
         /\ devFrame' = devShift'
         /\ frameOrigin' =
              IF convStart >= 0 /\ now - convStart >= MAX31855_CONVERSION_TIME
                THEN convOrigin
                ELSE "earlier"
         /\ convStart' = -1
         /\ convOrigin' = "none"
    ELSE IF level = HIGH /\ pinLevels[_cs] = LOW
      THEN /\ convStart' = now
           /\ convOrigin' = pc
           /\ devFrame' = 0
           /\ UNCHANGED <<devShift, devIdx, frameOrigin>>
      ELSE UNCHANGED devVars

\* digitalWrite(_cs, level)
WriteCs(level) ==
  /\ pinLevels' = [pinLevels EXCEPT ![_cs] = level]
  /\ pinsUsed' = pinsUsed \cup {_cs}
  /\ DeviceOnCs(level)
  /\ UNCHANGED pinModes

\* the levels digitalRead(_so) can return: the chip drives D31 first while
\* chip-select is low, the line floats otherwise
SoLevels ==
  IF pinLevels[_cs] = LOW /\ devIdx < 32
    THEN {bitRead(devShift, 31)}
    ELSE {LOW, HIGH}

\* the words SPI.transfer16 can return: the next 16 bits of the chip
SpiWords ==
  IF pinLevels[_cs] = LOW /\ devIdx <= 16
    THEN {BitAnd(Shr(devShift, 16), 65535)}
    ELSE {0, 65535}

\* the chip after n clock pulses: the next bit moves to the output
DeviceShift(n) ==
  /\ devShift' = IF devIdx + n >= 32 THEN 0 ELSE Shl(devShift, n)
  /\ devIdx' = IF devIdx + n >= 32 THEN 32 ELSE devIdx + n
  /\ UNCHANGED <<devFrame, convStart, convOrigin, frameOrigin>>

\* delay(ms)
Delay(ms) == now' = now + ms

(***************************************************************************)
(* begin()                                                                 *)
(***************************************************************************)
CallBegin ==
  /\ pc = "idle"
  /\ lastOp = "none"
  /\ begins < MaxBegins
  /\ begins' = begins + 1
  /\ pc' = "bg_pinModeCs"
  /\ stack' = <<"begin">>
  /\ lastOp' = "begin"
  /\ lastArg' = 0
  /\ result' = 0
  /\ txCount' = 0
  /\ fetched' = <<>>
  /\ UNCHANGED <<polledOk, cfgVars, pinVars, spiVars, devVars, now, rawValue, rawData, i,
                 reads, trcVars, timVars>>

\* a build whose pinMode(pin, OUTPUT) clears the output latch of the pin
bg_pinModeCs_ClearsLatch ==
  /\ pc = "bg_pinModeCs"
  /\ pinModes' = [pinModes EXCEPT ![_cs] = "OUTPUT"]
  /\ pinLevels' = [pinLevels EXCEPT ![_cs] = LOW]
  /\ pinsUsed' = pinsUsed \cup {_cs}
  /\ DeviceOnCs(LOW)
  /\ pc' = "bg_csHigh"
  /\ UNCHANGED <<polledOk, cfgVars, spiVars, now, stack, rawValue, rawData, i, cntVars,
                 resVars, trcVars, timVars>>

\* line 88: pinMode(_cs, OUTPUT)
bg_pinModeCs ==
  /\ pc = "bg_pinModeCs"
  /\ pinModes' = [pinModes EXCEPT ![_cs] = "OUTPUT"]
  /\ pinsUsed' = pinsUsed \cup {_cs}
  /\ pc' = "bg_csHigh"
  /\ UNCHANGED <<polledOk, cfgVars, pinLevels, spiVars, devVars, now, stack, rawValue,
                 rawData, i, cntVars, resVars, trcVars, timVars>>

\* a build whose begin() does not test the mode and sets up the stored pins
bg_csHigh_NoModeTest ==
  /\ pc = "bg_csHigh"
  /\ WriteCs(HIGH)
  /\ pc' = "bg_pinModeSo"
  /\ UNCHANGED <<polledOk, cfgVars, spiVars, now, stack, rawValue, rawData, i, cntVars,
                 resVars, trcVars, timVars>>

\* line 89: digitalWrite(_cs, HIGH)
bg_csHigh ==
  /\ pc = "bg_csHigh"
  /\ WriteCs(HIGH)
  /\ pc' = IF _useHardwareSPI THEN "bg_spiBegin" ELSE "bg_pinModeSo"
  /\ UNCHANGED <<polledOk, cfgVars, spiVars, now, stack, rawValue, rawData, i, cntVars,
                 resVars, trcVars, timVars>>

\* line 94: SPI.begin()
bg_spiBegin ==
  /\ pc = "bg_spiBegin"
  /\ spiBegun' = TRUE
  /\ pc' = "bg_delay"
  /\ UNCHANGED <<polledOk, cfgVars, pinVars, spiInTransaction, devVars, now, stack,
                 rawValue, rawData, i, cntVars, resVars, trcVars, timVars>>

\* line 98: pinMode(_so, INPUT)
bg_pinModeSo ==
  /\ pc = "bg_pinModeSo"
  /\ pinModes' = [pinModes EXCEPT ![_so] = "INPUT"]
  /\ pinsUsed' = pinsUsed \cup {_so}
  /\ pc' = "bg_pinModeSck"
  /\ UNCHANGED <<polledOk, cfgVars, pinLevels, spiVars, devVars, now, stack, rawValue,
                 rawData, i, cntVars, resVars, trcVars, timVars>>

\* line 99: pinMode(_sck, OUTPUT)
bg_pinModeSck ==
  /\ pc = "bg_pinModeSck"
  /\ pinModes' = [pinModes EXCEPT ![_sck] = "OUTPUT"]
  /\ pinsUsed' = pinsUsed \cup {_sck}
  /\ pc' = "bg_sckLow"
  /\ UNCHANGED <<polledOk, cfgVars, pinLevels, spiVars, devVars, now, stack, rawValue,
                 rawData, i, cntVars, resVars, trcVars, timVars>>

\* a build that assigns LOW to the stored clock pin number instead of writing
\* the line
bg_sckLow_AssignsMember ==
  /\ pc = "bg_sckLow"
  /\ _sck' = LOW
  /\ pc' = "bg_delay"
  /\ UNCHANGED <<polledOk, _useHardwareSPI, _cs, _so, instances, pinVars, spiVars,
                 devVars, now, stack, rawValue, rawData, i, cntVars, resVars,
                 trcVars, timVars>>

\* line 100: digitalWrite(_sck, LOW)
bg_sckLow ==
  /\ pc = "bg_sckLow"
  /\ pinLevels' = [pinLevels EXCEPT ![_sck] = LOW]
  /\ pinsUsed' = pinsUsed \cup {_sck}
  /\ pc' = "bg_delay"
  /\ UNCHANGED <<polledOk, cfgVars, pinModes, spiVars, devVars, now, stack, rawValue,
                 rawData, i, cntVars, resVars, trcVars, timVars>>

\* line 104: delay(MAX31855_CONVERSION_POWER_UP_TIME), then return
bg_delay ==
  /\ pc = "bg_delay"
  /\ Delay(MAX31855_CONVERSION_POWER_UP_TIME)
  /\ pc' = "idle"
  /\ stack' = <<>>
  /\ UNCHANGED <<polledOk, cfgVars, pinVars, spiVars, devVars, rawValue, rawData, i,
                 cntVars, resVars, trcVars, timVars>>

(***************************************************************************)
(* readRawData()                                                           *)
(***************************************************************************)
\* line 249: entry of readRawData, int32_t rawData = 0
EnterReadRawData(callers) ==
  /\ pc' = "rd_csLow1"
  /\ stack' = Append(callers, "readRawData")
  /\ rawData' = 0
  /\ i' = 0
  /\ txCount' = txCount + 1
  /\ reads' = reads + 1
  /\ csTrace' = <<>>
  /\ sampleLog' = {}
  /\ nSamples' = 0
  /\ spiTrace' = <<>>
  /\ rxTrace' = <<>>
  /\ sampleClock' = {}
  /\ tEnter' = now

\* line 251: digitalWrite(_cs, LOW), stop measurement/conversion
rd_csLow1 ==
  /\ pc = "rd_csLow1"
  /\ WriteCs(LOW)
  /\ csTrace' = Append(csTrace, LOW)
  /\ pc' = "rd_delay1"
  /\ UNCHANGED <<polledOk, cfgVars, spiVars, now, stack, rawValue, rawData, i, cntVars,
                 resVars, sampleLog, nSamples, rxVars, spiTrace, timVars>>

\* line 252: delay(1)
rd_delay1 ==
  /\ pc = "rd_delay1"
  /\ Delay(StopPulseTime)
  /\ pc' = "rd_csHigh1"
  /\ UNCHANGED <<polledOk, cfgVars, pinVars, spiVars, devVars, stack, rawValue, rawData,
                 i, cntVars, resVars, trcVars, timVars>>

\* a build without the write of line 253
rd_csHigh1_Missing ==
  /\ pc = "rd_csHigh1"
  /\ tRise' = now
  /\ pc' = "rd_delayConv"
  /\ UNCHANGED <<polledOk, cfgVars, pinVars, spiVars, devVars, now, stack, rawValue,
                 rawData, i, cntVars, resVars, trcVars, tEnter, tFall,
                 tLastReturn, tPrevReturn>>

\* line 253: digitalWrite(_cs, HIGH), start measurement/conversion
rd_csHigh1 ==
  /\ pc = "rd_csHigh1"
  /\ WriteCs(HIGH)
  /\ csTrace' = Append(csTrace, HIGH)
  /\ tRise' = now
  /\ pc' = "rd_delayConv"
  /\ UNCHANGED <<polledOk, cfgVars, spiVars, now, stack, rawValue, rawData, i, cntVars,
                 resVars, sampleLog, nSamples, rxVars, spiTrace, tEnter, tFall, tLastReturn,
                 tPrevReturn>>

\* a build that waits the stop-pulse time in place of the conversion time
rd_delayConv_Short ==
  /\ pc = "rd_delayConv"
  /\ Delay(StopPulseTime)
  /\ pc' = "rd_csLow2"
  /\ UNCHANGED <<polledOk, cfgVars, pinVars, spiVars, devVars, stack, rawValue, rawData,
                 i, cntVars, resVars, trcVars, timVars>>

\* line 254: delay(MAX31855_CONVERSION_TIME)
rd_delayConv ==
  /\ pc = "rd_delayConv"
  /\ Delay(MAX31855_CONVERSION_TIME)
  /\ pc' = "rd_csLow2"
  /\ UNCHANGED <<polledOk, cfgVars, pinVars, spiVars, devVars, stack, rawValue, rawData,
                 i, cntVars, resVars, trcVars, timVars>>

\* a build without the write of line 256
rd_csLow2_Missing ==
  /\ pc = "rd_csLow2"
  /\ tFall' = now
  /\ pc' = IF _useHardwareSPI THEN "rd_beginTransaction" ELSE "rd_sckHigh"
  /\ UNCHANGED <<polledOk, cfgVars, pinVars, spiVars, devVars, now, stack, rawValue,
                 rawData, i, cntVars, resVars, trcVars, tEnter, tRise,
                 tLastReturn, tPrevReturn>>

\* lines 256-258: digitalWrite(_cs, LOW), enable the serial interface; switch
rd_csLow2 ==
  /\ pc = "rd_csLow2"
  /\ WriteCs(LOW)
  /\ csTrace' = Append(csTrace, LOW)
  /\ tFall' = now
  /\ pc' = IF _useHardwareSPI THEN "rd_beginTransaction" ELSE "rd_sckHigh"
  /\ UNCHANGED <<polledOk, cfgVars, spiVars, now, stack, rawValue, rawData, i, cntVars,
                 resVars, sampleLog, nSamples, rxVars, spiTrace, tEnter, tRise, tLastReturn,
                 tPrevReturn>>

\* a build that transfers without opening the transaction
rd_beginTransaction_Missing ==
  /\ pc = "rd_beginTransaction"
  /\ i' = 0
  /\ pc' = "rd_transfer16"
  /\ UNCHANGED <<polledOk, cfgVars, pinVars, spiVars, devVars, now, stack, rawValue,
                 rawData, cntVars, resVars, trcVars, timVars>>

\* lines 261-262: SPI.beginTransaction(...), i = 0
rd_beginTransaction ==
  /\ pc = "rd_beginTransaction"
  /\ spiInTransaction' = TRUE
  /\ spiTrace' = Append(spiTrace, "beginTransaction")
  /\ i' = 0
  /\ pc' = "rd_transfer16"
  /\ UNCHANGED <<polledOk, cfgVars, pinVars, spiBegun, devVars, now, stack, rawValue,
                 rawData, cntVars, resVars, csTrace, sampleLog, nSamples, rxVars,
                 timVars>>

\* a build that receives each word as a signed 16-bit value
rd_transfer16_SignExtends ==
  /\ pc = "rd_transfer16"
  /\ i < 2
  /\ \E w \in SpiWords : /\ rawData' = BitOr(Shl(rawData, 16), IF w >= 32768 THEN w - 65536 ELSE w)
                         /\ rxTrace' = Append(rxTrace, w)
  /\ UNCHANGED sampleClock
  /\ DeviceShift(16)
  /\ sampleLog' = sampleLog \cup {Len(csTrace)}
  /\ nSamples' = nSamples + 1
  /\ spiTrace' = Append(spiTrace, "transfer16")
  /\ i' = i + 1
  /\ pc' = IF i + 1 < 2 THEN "rd_transfer16" ELSE "rd_csHigh2"
  /\ UNCHANGED <<polledOk, cfgVars, pinVars, spiVars, now, stack, rawValue, cntVars,
                 resVars, csTrace, timVars>>

\* a build that does not shift the first word up
rd_transfer16_NoShift ==
  /\ pc = "rd_transfer16"
  /\ i < 2
  /\ \E w \in SpiWords : /\ rawData' = BitOr(rawData, w)
                         /\ rxTrace' = Append(rxTrace, w)
  /\ UNCHANGED sampleClock
  /\ DeviceShift(16)
  /\ sampleLog' = sampleLog \cup {Len(csTrace)}
  /\ nSamples' = nSamples + 1
  /\ spiTrace' = Append(spiTrace, "transfer16")
  /\ i' = i + 1
  /\ pc' = IF i + 1 < 2 THEN "rd_transfer16" ELSE "rd_csHigh2"
  /\ UNCHANGED <<polledOk, cfgVars, pinVars, spiVars, now, stack, rawValue, cntVars,
                 resVars, csTrace, timVars>>

\* lines 262-265: rawData = (rawData << 16) | SPI.transfer16(0x0000), i++, i < 2
rd_transfer16 ==
  /\ pc = "rd_transfer16"
  /\ i < 2
  /\ \E w \in SpiWords : /\ rawData' = BitOr(Shl(rawData, 16), w)
                         /\ rxTrace' = Append(rxTrace, w)
  /\ UNCHANGED sampleClock
  /\ DeviceShift(16)
  /\ sampleLog' = sampleLog \cup {Len(csTrace)}
  /\ nSamples' = nSamples + 1
  /\ spiTrace' = Append(spiTrace, "transfer16")
  /\ i' = i + 1
  /\ pc' = IF i + 1 < 2 THEN "rd_transfer16" ELSE "rd_csHigh2"
  /\ UNCHANGED <<polledOk, cfgVars, pinVars, spiVars, now, stack, rawValue, cntVars,
                 resVars, csTrace, timVars>>

\* a build that completes the clock pulse before it samples
rd_sckHigh_PulseFirst ==
  /\ pc = "rd_sckHigh"
  /\ i < 32
  /\ pinLevels' = [pinLevels EXCEPT ![_sck] = LOW]
  /\ pinsUsed' = pinsUsed \cup {_sck}
  /\ IF pinLevels[_cs] = LOW THEN DeviceShift(1) ELSE UNCHANGED devVars
  /\ pc' = "rd_sample"
  /\ UNCHANGED <<polledOk, cfgVars, pinModes, spiVars, now, stack, rawValue,
                 rawData, i, cntVars, resVars, trcVars, timVars>>

\* lines 269-271: i < 32, digitalWrite(_sck, HIGH)
rd_sckHigh ==
  /\ pc = "rd_sckHigh"
  /\ i < 32
  /\ pinLevels' = [pinLevels EXCEPT ![_sck] = HIGH]
  /\ pinsUsed' = pinsUsed \cup {_sck}
  /\ pc' = "rd_sample"
  /\ UNCHANGED <<polledOk, cfgVars, pinModes, spiVars, devVars, now, stack, rawValue,
                 rawData, i, cntVars, resVars, trcVars, timVars>>

\* a build that shifts after it has put the sample in
rd_sample_ShiftAfter ==
  /\ pc = "rd_sample"
  /\ \E b \in SoLevels : /\ rawData' = Shl(BitOr(rawData, b), 1)
                         /\ rxTrace' = Append(rxTrace, b)
  /\ sampleClock' = sampleClock \cup {<<pinLevels[_sck], i - nSamples>>}
  /\ pinsUsed' = pinsUsed \cup {_so}
  /\ sampleLog' = sampleLog \cup {Len(csTrace)}
  /\ nSamples' = nSamples + 1
  /\ pc' = "rd_sckLow"
  /\ UNCHANGED <<polledOk, cfgVars, pinModes, pinLevels, spiVars, devVars, now, stack,
                 rawValue, i, cntVars, resVars, csTrace, spiTrace, timVars>>

\* line 272: rawData = (rawData << 1) | digitalRead(_so)
rd_sample ==
  /\ pc = "rd_sample"
  /\ \E b \in SoLevels : /\ rawData' = BitOr(Shl(rawData, 1), b)
                         /\ rxTrace' = Append(rxTrace, b)
  /\ sampleClock' = sampleClock \cup {<<pinLevels[_sck], i - nSamples>>}
  /\ pinsUsed' = pinsUsed \cup {_so}
  /\ sampleLog' = sampleLog \cup {Len(csTrace)}
  /\ nSamples' = nSamples + 1
  /\ pc' = "rd_sckLow"
  /\ UNCHANGED <<polledOk, cfgVars, pinModes, pinLevels, spiVars, devVars, now, stack,
                 rawValue, i, cntVars, resVars, csTrace, spiTrace, timVars>>

\* a build whose loop does not count
rd_sckLow_NoIncrement ==
  /\ pc = "rd_sckLow"
  /\ pinLevels' = [pinLevels EXCEPT ![_sck] = LOW]
  /\ pinsUsed' = pinsUsed \cup {_sck}
  /\ IF pinLevels[_cs] = LOW /\ pinLevels[_sck] = HIGH
       THEN DeviceShift(1)
       ELSE UNCHANGED devVars
  /\ pc' = "rd_sckHigh"
  /\ UNCHANGED <<polledOk, cfgVars, pinModes, spiVars, now, stack, rawValue, rawData, i,
                 cntVars, resVars, trcVars, timVars>>

\* lines 273, 269: digitalWrite(_sck, LOW), i++, i < 32
rd_sckLow ==
  /\ pc = "rd_sckLow"
  /\ pinLevels' = [pinLevels EXCEPT ![_sck] = LOW]
  /\ pinsUsed' = pinsUsed \cup {_sck}
  /\ IF pinLevels[_cs] = LOW /\ pinLevels[_sck] = HIGH
       THEN DeviceShift(1)
       ELSE UNCHANGED devVars
  /\ i' = i + 1
  /\ pc' = IF i + 1 < 32 THEN "rd_sckHigh" ELSE "rd_csHigh2"
  /\ UNCHANGED <<polledOk, cfgVars, pinModes, spiVars, now, stack, rawValue, rawData,
                 cntVars, resVars, trcVars, timVars>>

\* a build without the write of line 278
rd_csHigh2_Missing ==
  /\ pc = "rd_csHigh2"
  /\ pc' = IF _useHardwareSPI THEN "rd_endTransaction" ELSE "rd_return"
  /\ UNCHANGED <<polledOk, cfgVars, pinVars, spiVars, devVars, now, stack, rawValue,
                 rawData, i, cntVars, resVars, trcVars, timVars>>

\* line 278: digitalWrite(_cs, HIGH), disable the serial interface
rd_csHigh2 ==
  /\ pc = "rd_csHigh2"
  /\ WriteCs(HIGH)
  /\ csTrace' = Append(csTrace, HIGH)
  /\ pc' = IF _useHardwareSPI THEN "rd_endTransaction" ELSE "rd_return"
  /\ UNCHANGED <<polledOk, cfgVars, spiVars, now, stack, rawValue, rawData, i, cntVars,
                 resVars, sampleLog, nSamples, rxVars, spiTrace, timVars>>

\* a build that keeps the transaction
rd_endTransaction_Missing ==
  /\ pc = "rd_endTransaction"
  /\ pc' = "rd_return"
  /\ UNCHANGED <<polledOk, cfgVars, pinVars, spiVars, devVars, now, stack, rawValue,
                 rawData, i, cntVars, resVars, trcVars, timVars>>

\* line 280: SPI.endTransaction()
rd_endTransaction ==
  /\ pc = "rd_endTransaction"
  /\ spiInTransaction' = FALSE
  /\ spiTrace' = Append(spiTrace, "endTransaction")
  /\ pc' = "rd_return"
  /\ UNCHANGED <<polledOk, cfgVars, pinVars, spiBegun, devVars, now, stack, rawValue,
                 rawData, i, cntVars, resVars, csTrace, sampleLog, nSamples, rxVars,
                 timVars>>

(***************************************************************************)
(* The decoders as called: each runs until it returns or calls readRawData *)
(***************************************************************************)
\* the function returned value; top is the top-level function's rawValue
Ret(value, top) ==
  [fetch |-> FALSE, callers |-> <<>>, value |-> value, rawValue |-> top]

\* the function called readRawData; callers are the functions on the stack
Fetch(callers, top) ==
  [fetch |-> TRUE, callers |-> callers, value |-> 0, rawValue |-> top]

\* detectThermocouple(arg) called from `outer`, lines 128-137
detectThermocouple(arg, outer, top) ==
  IF arg = MAX31855_FORCE_READ_DATA
    THEN Fetch(Append(outer, "detectThermocouple"), top)
    ELSE Ret(detectThermocoupleBody(arg), top)

\* getChipID(arg) called from `outer`, lines 152-156
getChipID(arg, outer, top) ==
  IF arg = MAX31855_FORCE_READ_DATA
    THEN Fetch(Append(outer, "getChipID"), top)
    ELSE Ret(getChipIDBody(arg), top)

\* getTemperature, lines 182-186, once getChipID(rawValue) returned id
getTemperatureAfterID(rv, id) ==
  IF id # MAX31855_ID
    THEN Ret(ErrorResult, rv)
    ELSE Ret(getTemperatureValue(rv), rv)

\* getTemperature, line 182, once detectThermocouple(rawValue) returned d:
\* the right operand of || is evaluated only when the left one is false
getTemperatureAfterDetect(rv, d) ==
  IF d # MAX31855_THERMOCOUPLE_OK
    THEN Ret(ErrorResult, rv)
    ELSE LET c == getChipID(rv, <<"getTemperature">>, rv)
         IN  IF c.fetch THEN c ELSE getTemperatureAfterID(rv, c.value)

\* getTemperature from line 182 with rawValue = rv
getTemperatureCheck(rv) ==
  LET d == detectThermocouple(rv, <<"getTemperature">>, rv)
  IN  IF d.fetch THEN d ELSE getTemperatureAfterDetect(rv, d.value)

\* getTemperature(arg), lines 180-186
getTemperature(arg) ==
  IF arg = MAX31855_FORCE_READ_DATA
    THEN Fetch(<<"getTemperature">>, arg)
    ELSE getTemperatureCheck(arg)

\* a build that returns the value whatever getChipID returned
getColdJunctionTemperatureAfterID_NoCheck(rv, id) ==
  Ret(getColdJunctionTemperatureValue(rv), rv)

\* getColdJunctionTemperature, lines 206-211, once getChipID returned id
getColdJunctionTemperatureAfterID(rv, id) ==
  IF id # MAX31855_ID
    THEN Ret(ErrorResult, rv)
    ELSE Ret(getColdJunctionTemperatureValue(rv), rv)

\* a build that tests detectThermocouple too, as getTemperature does
getColdJunctionTemperatureCheck_Fault(rv) ==
  IF detectThermocoupleBody(rv) # MAX31855_THERMOCOUPLE_OK
    THEN Ret(ErrorResult, rv)
    ELSE getColdJunctionTemperatureAfterID(rv, getChipIDBody(rv))

\* getColdJunctionTemperature from line 206 with rawValue = rv
getColdJunctionTemperatureCheck(rv) ==
  LET c == getChipID(rv, <<"getColdJunctionTemperature">>, rv)
  IN  IF c.fetch THEN c ELSE getColdJunctionTemperatureAfterID(rv, c.value)

\* getColdJunctionTemperature(arg), lines 204-211
getColdJunctionTemperature(arg) ==
  IF arg = MAX31855_FORCE_READ_DATA
    THEN Fetch(<<"getColdJunctionTemperature">>, arg)
    ELSE getColdJunctionTemperatureCheck(arg)

\* the callers of a readRawData that returned v go on: rawValue = readRawData()
AfterReadRawData(callers, top, v) ==
  CASE callers = <<>> -> Ret(v, top)
    [] callers = <<"detectThermocouple">> -> Ret(detectThermocoupleBody(v), v)
    [] callers = <<"getChipID">> -> Ret(getChipIDBody(v), v)
    [] callers = <<"getTemperature">> -> getTemperatureCheck(v)
    [] callers = <<"getTemperature", "detectThermocouple">> ->
         getTemperatureAfterDetect(top, detectThermocoupleBody(v))
    [] callers = <<"getTemperature", "getChipID">> ->
         getTemperatureAfterID(top, getChipIDBody(v))
    [] callers = <<"getColdJunctionTemperature">> ->
         getColdJunctionTemperatureCheck(v)
    [] callers = <<"getColdJunctionTemperature", "getChipID">> ->
         getColdJunctionTemperatureAfterID(top, getChipIDBody(v))

\* a top-level call of a decoder with outcome o: the whole call when it needs
\* no frame, up to the entry of readRawData otherwise
TopLevelCall(fn, arg, o) ==
  /\ begins >= 1   \* setup() calls begin() before any other method,
  /\ \A c \in instances : pinModes[c] = "OUTPUT"   \* on every object declared
  /\ lastOp' = fn
  /\ lastArg' = arg
  /\ fetched' = <<>>
  /\ result' = IF o.fetch THEN 0 ELSE o.value
  /\ IF o.fetch
       THEN /\ reads < MaxReads
            /\ reads' = reads + 1
            /\ rawValue' = o.rawValue
            /\ txCount' = 1
            /\ pc' = "rd_csLow1"
            /\ stack' = Append(o.callers, "readRawData")
            /\ rawData' = 0
            /\ i' = 0
            /\ csTrace' = <<>>
            /\ sampleLog' = {}
            /\ nSamples' = 0
            /\ spiTrace' = <<>>
            /\ rxTrace' = <<>>
            /\ sampleClock' = {}
            /\ tEnter' = now
            /\ UNCHANGED <<begins, tRise, tFall, tLastReturn, tPrevReturn>>
       ELSE /\ txCount' = 0
            /\ UNCHANGED <<ctlVars, cntVars, trcVars, timVars>>
  /\ UNCHANGED <<polledOk, cfgVars, pinVars, spiVars, devVars, now>>

\* the caller is between two calls
CallerReady == pc = "idle" /\ lastOp = "none"

CallDetectThermocouple ==
  /\ CallerReady
  /\ \E arg \in ArgFrames :
       TopLevelCall("detectThermocouple", arg, detectThermocouple(arg, <<>>, arg))

CallGetChipID ==
  /\ CallerReady
  /\ \E arg \in ArgFrames :
       TopLevelCall("getChipID", arg, getChipID(arg, <<>>, arg))

CallGetTemperature ==
  /\ CallerReady
  /\ \E arg \in ArgFrames :
       TopLevelCall("getTemperature", arg, getTemperature(arg))

CallGetColdJunctionTemperature ==
  /\ CallerReady
  /\ \E arg \in ArgFrames :
       TopLevelCall("getColdJunctionTemperature", arg,
                    getColdJunctionTemperature(arg))

CallReadRawData ==
  /\ CallerReady
  /\ TopLevelCall("readRawData", 0, Fetch(<<>>, 0))

\* what the decoder fn does with the argument arg
Decode(fn, arg) ==
  CASE fn = "detectThermocouple" -> detectThermocouple(arg, <<>>, arg)
    [] fn = "getChipID" -> getChipID(arg, <<>>, arg)
    [] fn = "getTemperature" -> getTemperature(arg)
    [] fn = "getColdJunctionTemperature" -> getColdJunctionTemperature(arg)

\* rawData = readRawData(); then a decoder on rawData, as loop() of the
\* demonstration programs does: the frame just returned is the argument
DecodeAcquired ==
  /\ pc = "idle"
  /\ lastOp = "readRawData"
  /\ \E fn \in Decoders : TopLevelCall(fn, result, Decode(fn, result))

\* the decoders loop() of the demonstration programs applies to the frame
DemoDecoders == {"getChipID", "getColdJunctionTemperature", "getTemperature"}

\* the same in the demonstration programs that keep the frame in a uint16_t
\* variable: the assignment keeps bits 15..0 of the frame, and the call widens
\* them back to int32_t with bits 31..16 zero
DecodeAcquired16 ==
  /\ pc = "idle"
  /\ lastOp = "readRawData"
  /\ \E fn \in DemoDecoders :
       LET held == BitAnd(result, 65535)
       IN  TopLevelCall(fn, held, Decode(fn, held))

\* line 282: return rawData, and the callers go on until the top-level call
\* returns or readRawData is called again
rd_return ==
  /\ pc = "rd_return"
  /\ LET o == AfterReadRawData(SubSeq(stack, 1, Len(stack) - 1), rawValue, rawData)
     IN  /\ fetched' = Append(fetched, rawData)
         /\ tPrevReturn' = tLastReturn
         /\ tLastReturn' = now
         /\ IF o.fetch
              THEN /\ EnterReadRawData(o.callers)
                   /\ rawValue' = o.rawValue
                   /\ UNCHANGED <<result>>
              ELSE /\ pc' = "idle"
                   /\ stack' = <<>>
                   /\ rawValue' = 0
                   /\ rawData' = 0
                   /\ i' = 0
                   /\ result' = o.value
                   /\ rxTrace' = <<>>
                   /\ UNCHANGED <<txCount, reads, csTrace, sampleLog, nSamples,
                                  spiTrace, sampleClock, tEnter>>
  /\ UNCHANGED <<polledOk, cfgVars, pinVars, spiVars, devVars, now, begins, lastOp,
                 lastArg, tRise, tFall>>

\* the caller uses what the call returned (the demos print it, and test it
\* in the guard of loop()) and goes on
CallerTakesResult ==
  /\ pc = "idle"
  /\ lastOp # "none"
  /\ lastOp' = "none"
  /\ lastArg' = 0
  /\ result' = 0
  /\ txCount' = 0
  /\ fetched' = <<>>
  /\ polledOk' = (/\ lastOp = "detectThermocouple"
                  /\ lastArg = MAX31855_FORCE_READ_DATA
                  /\ result = MAX31855_THERMOCOUPLE_OK)
  /\ UNCHANGED <<cfgVars, pinVars, spiVars, devVars, now, ctlVars, cntVars,
                 trcVars, timVars>>

(***************************************************************************)
(* Specification                                                           *)
(***************************************************************************)
Next ==
  \/ CallBegin
  \/ bg_pinModeCs
  \/ bg_csHigh
  \/ bg_spiBegin
  \/ bg_pinModeSo
  \/ bg_pinModeSck
  \/ bg_sckLow
  \/ bg_delay
  \/ CallReadRawData
  \/ CallDetectThermocouple
  \/ CallGetChipID
  \/ CallGetTemperature
  \/ CallGetColdJunctionTemperature
  \/ rd_csLow1
  \/ rd_delay1
  \/ rd_csHigh1
  \/ rd_delayConv
  \/ rd_csLow2
  \/ rd_beginTransaction
  \/ rd_transfer16
  \/ rd_sckHigh
  \/ rd_sample
  \/ rd_sckLow
  \/ rd_csHigh2
  \/ rd_endTransaction
  \/ rd_return
  \/ DecodeAcquired
  \/ DecodeAcquired16
  \/ CallerTakesResult

Spec == Init /\ [][Next]_vars

(***************************************************************************)
(* Two sensors on one hardware SPI bus                                     *)
(***************************************************************************)
\* MAX31855 myMAX31855_01(3); MAX31855 myMAX31855_02(4): the members are those
\* of the object whose method runs, myMAX31855_01 first
Constructor2 ==
  /\ _useHardwareSPI = TRUE
  /\ _cs = DemoCs
  /\ _so = 0
  /\ _sck = 0
  /\ instances = {DemoCs, DemoCs2}

Init2 ==
  /\ Constructor2
  /\ PowerOn

\* the next call of the sketch is on the other object; the chip state of the
\* model is then read as that of the chip on its chip-select
SwitchInstance ==
  /\ CallerReady
  /\ _cs' \in instances \ {_cs}
  /\ UNCHANGED <<polledOk, _useHardwareSPI, _so, _sck, instances, pinVars, spiVars,
                 devVars, now, ctlVars, cntVars, resVars, trcVars, timVars>>

Next2 ==
  \/ SwitchInstance
  \/ CallBegin
  \/ bg_pinModeCs
  \/ bg_csHigh
  \/ bg_spiBegin
  \/ bg_delay
  \/ CallReadRawData
  \/ CallDetectThermocouple
  \/ CallGetChipID
  \/ CallGetTemperature
  \/ CallGetColdJunctionTemperature
  \/ rd_csLow1
  \/ rd_delay1
  \/ rd_csHigh1
  \/ rd_delayConv
  \/ rd_csLow2
  \/ rd_beginTransaction
  \/ rd_transfer16
  \/ rd_csHigh2
  \/ rd_endTransaction
  \/ rd_return
  \/ DecodeAcquired
  \/ DecodeAcquired16
  \/ CallerTakesResult

TwoSpec == Init2 /\ [][Next2]_vars

\* the statements of a method that has been called: the processor runs the
\* next one, and delay() returns
Running ==
  \/ bg_pinModeCs
  \/ bg_csHigh
  \/ bg_spiBegin
  \/ bg_pinModeSo
  \/ bg_pinModeSck
  \/ bg_sckLow
  \/ bg_delay
  \/ rd_csLow1
  \/ rd_delay1
  \/ rd_csHigh1
  \/ rd_delayConv
  \/ rd_csLow2
  \/ rd_beginTransaction
  \/ rd_transfer16
  \/ rd_sckHigh
  \/ rd_sample
  \/ rd_sckLow
  \/ rd_csHigh2
  \/ rd_endTransaction
  \/ rd_return

\* a method that has been called runs on; the sketch may stop calling
FairSpec == Spec /\ WF_vars(Running)

(***************************************************************************)
(* Properties                                                              *)
(***************************************************************************)
\* the top-level call of fn has returned and its result is in `result`
Returned(fn) == pc = "idle" /\ lastOp = fn

\* bit n of the argument of the top-level call
ArgBit(n) == bitRead(lastArg, n)

\* the argument passes the identity check: D17 and D3 are low
ArgIdentityOk == ArgBit(17) = 0 /\ ArgBit(3) = 0

\* the n-bit field of frame f whose least significant bit is bit lo
Field(f, lo, n) == (f \div (2 ^ lo)) % (2 ^ n)

\* the n-bit field u read as a two's complement integer
Signed(u, n) == IF u >= 2 ^ (n - 1) THEN u - 2 ^ n ELSE u

\* readRawData is the function running
InReadRawData == stack # <<>> /\ stack[Len(stack)] = "readRawData"

\* C1: detectThermocouple returns OK (0) for every 32-bit frame value passed to
\* it whose bit 16 is 0, whatever bits 2, 1 and 0 are.
C1_AnyValueWithD16LowIsOk ==
  (Returned("detectThermocouple") /\ ArgBit(16) = 0) => result = 0

\* C1 holds of every frame but one: detectThermocouple returns OK (0), without
\* a transaction, for every value passed to it whose bit 16 is 0, whatever bits
\* 2, 1 and 0 are, unless the value is 7, which it takes for the request of a
\* fresh frame.
C1_FrameWithD16LowIsOk ==
  (Returned("detectThermocouple") /\ ArgBit(16) = 0
     /\ lastArg # MAX31855_FORCE_READ_DATA)
    => (result = 0 /\ txCount = 0)

C1_Witness ==
  /\ Returned("detectThermocouple")
  /\ lastArg # MAX31855_FORCE_READ_DATA
  /\ ArgBit(16) = 0
  /\ ArgBit(2) = 1 /\ ArgBit(1) = 1 /\ ArgBit(0) = 1
  /\ result = 0

\* C2: for every frame with bit 16 = 1, detectThermocouple returns the first
\* match in the order bit 2 (1, short to VCC), bit 1 (2, short to GND), bit 0
\* (3, not connected), and 4 (unknown) when none of the three is set.
C2_FaultPriority ==
  (Returned("detectThermocouple") /\ ArgBit(16) = 1)
    => /\ ArgBit(2) = 1 => result = 1
       /\ (ArgBit(2) = 0 /\ ArgBit(1) = 1) => result = 2
       /\ (ArgBit(2) = 0 /\ ArgBit(1) = 0 /\ ArgBit(0) = 1) => result = 3
       /\ (ArgBit(2) = 0 /\ ArgBit(1) = 0 /\ ArgBit(0) = 0) => result = 4

C2_Witness ==
  /\ Returned("detectThermocouple")
  /\ ArgBit(16) = 1
  /\ ArgBit(2) = 1 /\ ArgBit(1) = 1 /\ ArgBit(0) = 1
  /\ result = 1

\* C3: for every frame with bit 16 = 0 and bits 17 and 3 both 0, getTemperature
\* returns 0.25 times the signed 14-bit integer of bits 31..18 (in sixteenths:
\* result / 16 = count / 4).
C3_AnyValueDecodesThermocouple ==
  (Returned("getTemperature") /\ ArgBit(16) = 0 /\ ArgIdentityOk)
    => 4 * result = 16 * Signed(Field(lastArg, 18, 14), 14)

\* C3 holds of every frame but one: for every frame with bit 16 = 0 and bits 17
\* and 3 both 0, unless it is the value 7, getTemperature returns 0.25 times the
\* signed 14-bit integer of bits 31..18, so a count V encoded into bits 31..18
\* decodes to V quarters.
C3_FrameDecodesThermocouple ==
  (Returned("getTemperature") /\ ArgBit(16) = 0 /\ ArgIdentityOk
     /\ lastArg # MAX31855_FORCE_READ_DATA)
    => /\ 4 * result = 16 * Signed(Field(lastArg, 18, 14), 14)
       /\ \A p \in FieldPairs, d2 \in {0, 1}, d1 \in {0, 1}, d0 \in {0, 1} :
            lastArg = MkFrame(p[1], 0, 0, p[2], 0, d2, d1, d0)
              => 4 * result = 16 * p[1]

\* -40.00 degrees: count -160, returned as -640 sixteenths
C3_Witness ==
  /\ Returned("getTemperature")
  /\ lastArg = MkFrame(-160, 0, 0, 4094, 0, 0, 0, 0)
  /\ result = -640

\* C4: for every frame with bits 17 and 3 both 0, getColdJunctionTemperature
\* returns 0.0625 times the signed 12-bit integer of bits 15..4, so a frame
\* whose bit 15 is 1 decodes to a negative temperature.
C4_ColdJunctionSigned ==
  (Returned("getColdJunctionTemperature") /\ ArgIdentityOk)
    => /\ result = Signed(Field(lastArg, 4, 12), 12)
       /\ ArgBit(15) = 1 => result < 0

\* C5: getChipID returns 31855 if and only if bit 17 and bit 3 of the supplied
\* frame are both 0, and 0 for every other frame.
C5_AnyValueChipID ==
  Returned("getChipID")
    => /\ result = 31855 <=> ArgIdentityOk
       /\ ~ArgIdentityOk => result = 0

\* C5 holds of every frame but one: for every supplied value except 7,
\* getChipID returns 31855 if and only if bit 17 and bit 3 are both 0, and 0
\* otherwise, without a transaction.
C5_FrameChipID ==
  (Returned("getChipID") /\ lastArg # MAX31855_FORCE_READ_DATA)
    => /\ result = 31855 <=> ArgIdentityOk
       /\ ~ArgIdentityOk => result = 0
       /\ txCount = 0

C5_Witness ==
  /\ Returned("getChipID")
  /\ lastArg # MAX31855_FORCE_READ_DATA
  /\ ArgBit(17) = 0 /\ ArgBit(3) = 0 /\ ArgBit(16) = 1 /\ ArgBit(2) = 1
  /\ result = 31855

\* C6: for every frame with bit 17 = 1 or bit 3 = 1, getTemperature and
\* getColdJunctionTemperature both return 2000, whatever the other bits are.
C6_IdentityFailureIsError ==
  (pc = "idle" /\ lastOp \in {"getTemperature", "getColdJunctionTemperature"}
     /\ ~ArgIdentityOk)
    => result = 2000 * 16

C6_Witness ==
  /\ Returned("getColdJunctionTemperature")
  /\ ArgBit(17) = 0 /\ ArgBit(3) = 1 /\ ArgBit(16) = 0
  /\ result = 2000 * 16

\* C7: for every frame with bit 16 = 1 and bits 17 and 3 both 0, getTemperature
\* returns 2000 while getColdJunctionTemperature returns a value other than
\* 2000 that every frame with the same bits 15..4 (bit 16 = 1, bits 17 and 3
\* both 0) gets too.
C7_FaultDoesNotBlockColdJunction ==
  /\ (Returned("getTemperature") /\ ArgBit(16) = 1 /\ ArgIdentityOk)
       => result = 2000 * 16
  /\ (Returned("getColdJunctionTemperature") /\ ArgBit(16) = 1 /\ ArgIdentityOk)
       => /\ result # 2000 * 16
          /\ \A g \in ArgFrames :
               (/\ bitRead(g, 16) = 1
                /\ bitRead(g, 17) = 0
                /\ bitRead(g, 3) = 0
                /\ Field(g, 4, 12) = Field(lastArg, 4, 12))
                 => getColdJunctionTemperature(g).value = result

\* 25.0625 degrees with a short to VCC: 401 sixteenths
C7_Witness ==
  /\ Returned("getColdJunctionTemperature")
  /\ lastArg = MkFrame(400, 0, 1, 401, 0, 1, 0, 0)
  /\ result = 401

\* C8: every readRawData call drives chip-select low, high, low, high, in that
\* order and no more; every data-line sample or word transfer is made between
\* the second low and the final high.
C8_ChipSelectSequence ==
  /\ InReadRawData
       => /\ Len(csTrace) <= 4
          /\ csTrace = SubSeq(<<LOW, HIGH, LOW, HIGH>>, 1, Len(csTrace))
  /\ pc = "rd_return" => (csTrace = <<LOW, HIGH, LOW, HIGH>> /\ nSamples > 0)
  /\ sampleLog \subseteq {3}
  /\ nSamples > 0 => (pinLevels[_cs] = LOW \/ Len(csTrace) = 4)

C8_Witness ==
  /\ pc = "rd_return"
  /\ csTrace = <<LOW, HIGH, LOW, HIGH>>
  /\ nSamples = 32
  /\ sampleLog = {3}

\* C9: every readRawData call keeps chip-select high for at least 100 ms between
\* its conversion-start rising edge and the falling edge that enables read-out,
\* the whole call takes at least 101 ms, and two successive frames are never
\* returned less than 101 ms apart.
C9_ConversionTime ==
  /\ (InReadRawData /\ Len(csTrace) >= 3) => tFall - tRise >= 100
  /\ pc = "rd_return" => now - tEnter >= 101
  /\ tPrevReturn >= 0 => tLastReturn - tPrevReturn >= 101

C9_Witness ==
  /\ pc = "idle"
  /\ tPrevReturn >= 0
  /\ tLastReturn - tPrevReturn = 101
  /\ tFall - tRise = 100

\* the result of decoder fn called with frame f, f not the value 7
ResultOn(fn, f) ==
  CASE fn = "detectThermocouple" -> detectThermocouple(f, <<>>, f).value
    [] fn = "getChipID" -> getChipID(f, <<>>, f).value
    [] fn = "getTemperature" -> getTemperature(f).value
    [] fn = "getColdJunctionTemperature" -> getColdJunctionTemperature(f).value

\* C10: each decoder called with the default argument performs exactly one
\* readRawData transaction (txCount stays 1 from the call to its return) and
\* returns what it returns when called with the frame that transaction
\* returned, for every frame the device may present.
C10_OneTransactionPerFetch ==
  (lastOp \in Decoders /\ lastArg = MAX31855_FORCE_READ_DATA)
    => /\ txCount = 1
       /\ (pc = "idle" /\ fetched[1] # MAX31855_FORCE_READ_DATA)
            => (Len(fetched) = 1 /\ result = ResultOn(lastOp, fetched[1]))


\* C11: for every frame value that readRawData can return, passing that frame
\* to detectThermocouple, getChipID, getTemperature or
\* getColdJunctionTemperature starts no transaction and changes no line: the
\* call returns at once with chip-select, clock and SPI peripheral as they were.
C11_AcquiredFrameNeverSentinel ==
  [][DecodeAcquired =>
       /\ pc' = "idle"
       /\ txCount' = 0
       /\ pinLevels' = pinLevels
       /\ spiInTransaction' = spiInTransaction]_vars

\* C12: in hardware-SPI mode every readRawData call opens the SPI transaction
\* exactly once and closes it exactly once before returning; both 16-bit
\* transfers happen while the transaction is open and chip-select is low, the
\* transaction is closed only after chip-select has been driven high, and no
\* transaction is held when the call returns.
C12_TransactionDiscipline ==
  /\ (_useHardwareSPI /\ InReadRawData) =>
       /\ spiTrace =
            SubSeq(<<"beginTransaction", "transfer16", "transfer16",
                     "endTransaction">>, 1, Len(spiTrace))
       /\ spiInTransaction <=> Len(spiTrace) \in 1..3
       /\ Len(spiTrace) \in 1..2 => pinLevels[_cs] = LOW /\ Len(csTrace) = 3
       /\ pc = "rd_endTransaction" =>
            Len(spiTrace) = 3 /\ pinLevels[_cs] = HIGH /\ Len(csTrace) = 4
       /\ pc = "rd_return" => Len(spiTrace) = 4
  /\ pc = "idle" => ~spiInTransaction

C12_Witness ==
  /\ _useHardwareSPI
  /\ pc = "rd_return"
  /\ spiTrace = <<"beginTransaction", "transfer16", "transfer16", "endTransaction">>
  /\ rawData = MkFrame(-160, 0, 0, 4095, 0, 0, 0, 0)

\* C13: after begin() and after any sequence of completed operations,
\* chip-select is an output driven high (serial interface disabled, a
\* conversion in progress) and, in software-SPI mode, the clock line is an
\* output driven low.
C13_QuiescentLines ==
  (pc = "idle" /\ begins >= 1) =>
    /\ pinModes[_cs] = "OUTPUT"
    /\ pinLevels[_cs] = HIGH
    /\ convStart >= 0
    /\ ~_useHardwareSPI => (pinModes[_sck] = "OUTPUT" /\ pinLevels[_sck] = LOW)

C13_Witness ==
  /\ ~_useHardwareSPI
  /\ Returned("getColdJunctionTemperature")
  /\ txCount = 1
  /\ reads = 2
  /\ pinLevels[_cs] = HIGH
  /\ pinLevels[_sck] = LOW

\* the top-level call decoded the frame f: f was its argument, or the one frame
\* it read
DecodedFrame(f) ==
  \/ txCount = 0 /\ lastArg = f
  \/ txCount = 1 /\ fetched = <<f>>

\* C14: for the all-ones frame and for the all-zeros frame getChipID returns 0
\* and both temperature decoders return 2000.
C14_DeadDeviceDetected ==
  \A f \in {0, -1} :
    DecodedFrame(f) =>
      /\ Returned("getChipID") => result = 0
      /\ Returned("getTemperature") => result = ErrorResult
      /\ Returned("getColdJunctionTemperature") => result = ErrorResult

\* C14 as the code has it: for the all-ones frame getChipID returns 0 and both
\* temperature decoders return 2000; for the all-zeros frame, whose bits 17 and
\* 3 are 0 like a genuine frame's, getChipID returns 31855 and both temperature
\* decoders return 0.0.
C14_OnlyAllOnesDetected ==
  /\ DecodedFrame(-1) =>
       /\ Returned("getChipID") => result = 0
       /\ Returned("getTemperature") => result = ErrorResult
       /\ Returned("getColdJunctionTemperature") => result = ErrorResult
  /\ DecodedFrame(0) =>
       /\ Returned("getChipID") => result = MAX31855_ID
       /\ Returned("getTemperature") => result = 0
       /\ Returned("getColdJunctionTemperature") => result = 0

C14_Witness ==
  /\ Returned("getColdJunctionTemperature")
  /\ lastArg = MAX31855_FORCE_READ_DATA
  /\ fetched = <<-1>>
  /\ result = ErrorResult

\* C15: with a chip whose conversion a chip-select rising edge starts and a
\* falling edge stops, the frame returned by a readRawData call is the result
\* of a conversion started before that call (by the final rising edge of the
\* previous call, or by begin), not of one started by a rising edge inside the
\* same call.
C15_FrameOfPreviousConversion ==
  pc = "rd_return" => frameOrigin # "rd_csHigh1"

\* C15 as the code has it: the frame returned by a readRawData call is the
\* result of the conversion started by the rising edge inside the same call
\* (line 253), which the call lets run for the conversion time; the conversion
\* started before the call is stopped by the first falling edge (line 251) and
\* its result is never read.
C15_FrameOfConversionInsideCall ==
  (InReadRawData /\ Len(csTrace) >= 3) =>
    /\ frameOrigin = "rd_csHigh1"
    /\ tFall - tRise >= MAX31855_CONVERSION_TIME

C15_Witness ==
  /\ pc = "rd_return"
  /\ reads = 2
  /\ txCount = 1
  /\ frameOrigin = "rd_csHigh1"
  /\ tLastReturn >= 0
  /\ rawData = MkFrame(400, 0, 0, 401, 0, 0, 0, 0)

\* the samples a readRawData call takes: 32 bits or 2 words
FrameSamples == IF _useHardwareSPI THEN 2 ELSE 32

\* a readRawData call has taken no more samples than a frame has, and all of
\* them when it returns
C16_Bounded ==
  /\ InReadRawData => (nSamples <= FrameSamples /\ i <= FrameSamples)
  /\ pc = "rd_return" => (nSamples = FrameSamples /\ i = FrameSamples)

\* C16: readRawData has no error path: in both modes and for every behaviour
\* of the data line it terminates after a bounded number of steps (32 clock
\* pulses or 2 word transfers) and returns; every decode operation terminates
\* for every argument, the sentinel included.
C16_AlwaysTerminates ==
  /\ []C16_Bounded
  /\ (pc # "idle" ~> pc = "idle")

C16_Witness ==
  /\ Returned("getTemperature")
  /\ lastArg = MAX31855_FORCE_READ_DATA
  /\ txCount = 3
  /\ ~_useHardwareSPI

\* C17: the two transports are interchangeable: for the same 32-bit sequence
\* presented by the chip MSB first (devFrame, loaded at the falling edge of
\* line 256), readRawData holds that very frame once the bits are clocked in,
\* in software-SPI mode and in hardware-SPI mode alike, returns it, and leaves
\* chip-select high in both modes.
C17_TransportsAgree ==
  /\ pc = "rd_csHigh2" => (rawData = devFrame /\ rawData \in DeviceFrames)
  /\ pc \in {"rd_endTransaction", "rd_return"} => rawData \in DeviceFrames
  /\ pc = "rd_return" => pinLevels[_cs] = HIGH
  /\ (pc = "idle" /\ fetched # <<>>) =>
       /\ pinLevels[_cs] = HIGH
       /\ \A k \in 1..Len(fetched) : fetched[k] \in DeviceFrames

C17_Witness ==
  /\ _useHardwareSPI
  /\ pc = "rd_csHigh2"
  /\ devFrame = MkFrame(-160, 0, 0, 4095, 0, 0, 0, 0)
  /\ rawData = devFrame

\* chip-select c is driven low
CsDrivenLow(c) == pinModes[c] = "OUTPUT" /\ pinLevels[c] = LOW

\* C18: with two hardware-SPI objects on one bus with distinct chip-select
\* lines, both initialised with begin() and used by sequential calls, at no
\* time are both chip-selects low, and no word transfer of one object happens
\* while the other object's chip-select is low or while the other object holds
\* the SPI transaction: the transaction is free when a call opens it and free
\* again when the call has returned.
C18_NoBusOverlap ==
  /\ \A a \in instances, b \in instances :
       a # b => ~(CsDrivenLow(a) /\ CsDrivenLow(b))
  /\ pc \in {"rd_beginTransaction", "rd_transfer16"} =>
       /\ \A c \in instances : pinModes[c] = "OUTPUT"
       /\ \A c \in instances \ {_cs} : pinLevels[c] = HIGH
  /\ pc = "rd_beginTransaction" => ~spiInTransaction
  /\ pc = "idle" => ~spiInTransaction

C18_Witness ==
  /\ instances = {DemoCs, DemoCs2}
  /\ _cs = DemoCs2
  /\ pc = "rd_transfer16"
  /\ i = 1
  /\ reads = 2
  /\ spiInTransaction
  /\ pinLevels[DemoCs2] = LOW
  /\ pinLevels[DemoCs] = HIGH

\* pin directions and levels begin() leaves: chip-select output high; in
\* software mode data line input and clock output low; every other pin as
\* after reset
BegunModes ==
  [p \in Pins |->
     IF p = _cs THEN "OUTPUT"
     ELSE IF ~_useHardwareSPI /\ p = _so THEN "INPUT"
     ELSE IF ~_useHardwareSPI /\ p = _sck THEN "OUTPUT"
     ELSE "UNSET"]

BegunLevels == [p \in Pins |-> IF p = _cs THEN HIGH ELSE LOW]

\* C19: begin() is idempotent on the line state: the pin directions and levels
\* after begin() are the same whether it was the first or a later call, and a
\* later begin() never drives chip-select low.
C19_BeginIdempotent ==
  /\ Returned("begin") => (pinModes = BegunModes /\ pinLevels = BegunLevels)
  /\ (stack = <<"begin">> /\ begins >= 2) =>
       (pinModes[_cs] = "OUTPUT" /\ pinLevels[_cs] = HIGH)

C19_Witness ==
  /\ Returned("begin")
  /\ begins = 2
  /\ reads >= 1
  /\ ~_useHardwareSPI
  /\ pinModes = BegunModes
  /\ pinLevels = BegunLevels

\* bits 16, 2, 1 and 0 of a frame
FaultBits(f) == <<bitRead(f, 16), bitRead(f, 2), bitRead(f, 1), bitRead(f, 0)>>

\* C20: the classification of a frame is a function of bits 16, 2, 1 and 0
\* only: when detectThermocouple has returned a result for a frame value, every
\* frame value that agrees with it on those four bits gets the same result
\* from detectThermocouple, whatever its other 28 bits are.
C20_ClassificationOfFourBitsOnly ==
  Returned("detectThermocouple") =>
    \A f \in ArgFrames :
      FaultBits(f) = FaultBits(lastArg) =>
        LET o == detectThermocouple(f, <<>>, f)
        IN  ~o.fetch /\ o.value = result

\* C21: the error value is unambiguous: getTemperature returns 2000 if and
\* only if the frame has a fault (bit 16 = 1) or fails the identity check (bit
\* 17 = 1 or bit 3 = 1), and getColdJunctionTemperature returns 2000 if and
\* only if the identity check fails. Stated of the calls that decode the frame
\* they are given.
C21_ErrorValueUnambiguous ==
  txCount = 0 =>
    /\ Returned("getTemperature") =>
         (result = ErrorResult <=> (ArgBit(16) = 1 \/ ~ArgIdentityOk))
    /\ Returned("getColdJunctionTemperature") =>
         (result = ErrorResult <=> ~ArgIdentityOk)

\* C22: in software-SPI mode a read makes exactly 32 clock pulses, each a
\* rising edge followed by a falling edge, all of them while chip-select is
\* low, and the frame it returns has bit (31 - k) equal to the data-line level
\* sampled in pulse k, for k = 0..31: the first sample is the most
\* significant bit and nothing of the initial accumulator is left.
C22_MsbFirstAssembly ==
  (~_useHardwareSPI /\ InReadRawData) =>
    /\ pinLevels[_sck] = HIGH <=> pc \in {"rd_sample", "rd_sckLow"}
    /\ pc \in {"rd_sample", "rd_sckLow"} =>
         (pinLevels[_cs] = LOW /\ Len(csTrace) = 3 /\ i < 32)
    /\ Len(rxTrace) = (IF pc = "rd_sckLow" THEN i + 1 ELSE i)
    /\ pc \in {"rd_csHigh2", "rd_return"} =>
         /\ i = 32
         /\ \A k \in 0..31 : bitRead(rawData, 31 - k) = rxTrace[k + 1]

\* a software-SPI read is about to return a frame with a high first sample and
\* a low one among the others
C22_Witness ==
  /\ ~_useHardwareSPI
  /\ pc = "rd_return"
  /\ Len(rxTrace) = 32
  /\ rxTrace[1] = HIGH
  /\ \E k \in 2..32 : rxTrace[k] = LOW

\* C23: in hardware-SPI mode a read makes exactly two 16-bit transfers and
\* returns the value whose bits 31..16 are the first word received and whose
\* bits 15..0 are the second, for every pair of words, the ones with the top
\* bit set included.
C23_WordsConcatenated ==
  (_useHardwareSPI /\ InReadRawData) =>
    /\ Len(rxTrace) = nSamples
    /\ Len(rxTrace) = Len(SelectSeq(spiTrace, LAMBDA c : c = "transfer16"))
    /\ Len(rxTrace) <= 2
    /\ pc \in {"rd_csHigh2", "rd_endTransaction", "rd_return"} =>
         /\ Len(rxTrace) = 2
         /\ Field(rawData, 16, 16) = rxTrace[1]
         /\ Field(rawData, 0, 16) = rxTrace[2]

\* a hardware-SPI read is about to return a frame whose second word, and not
\* whose first, has the top bit set
C23_Witness ==
  /\ _useHardwareSPI
  /\ pc = "rd_return"
  /\ Len(rxTrace) = 2
  /\ rxTrace[1] < 32768
  /\ rxTrace[2] >= 32768

C25_HighFirstAndSettled ==
  /\ pc \in {"bg_spiBegin", "bg_pinModeSo", "bg_pinModeSck", "bg_sckLow",
             "bg_delay"} =>
       (pinModes[_cs] = "OUTPUT" /\ pinLevels[_cs] = HIGH)
  /\ (pc \in {"bg_pinModeCs", "bg_csHigh"} /\ begins = 1) =>
       (~spiBegun /\ pinsUsed \subseteq {_cs})
  /\ (pc = "rd_csLow1" /\ convOrigin = "bg_csHigh") =>
       now - convStart >= MAX31855_CONVERSION_POWER_UP_TIME

\* C25: begin() drives chip-select high before it configures the clock and
\* data lines or the SPI peripheral, never drives chip-select low, and returns
\* only after a 200 ms delay that follows that rising edge, so the first
\* chip-select falling edge of a transaction issued after begin() comes at
\* least 200 ms after chip-select went high.
C25_BeginNeverAssertsCs ==
  /\ C25_HighFirstAndSettled
  /\ stack = <<"begin">> => ~CsDrivenLow(_cs)

\* C26: the transport configuration fixed by the constructor, that is the
\* hardware/software mode flag and the chip-select, data and clock pin
\* numbers, is left unchanged by every step of begin, of readRawData and of
\* every decode operation, in any sequence of calls.
C26_ConfigurationFixed ==
  [][UNCHANGED <<_useHardwareSPI, _cs, _so, _sck>>]_vars

\* begin has been called twice, a frame read, and a decoder has returned; the
\* pin numbers are the constructor's
C26_Witness ==
  /\ Returned("getTemperature")
  /\ begins = MaxBegins
  /\ reads >= 1
  /\ _cs = DemoCs
  /\ _useHardwareSPI \/ (_so = DemoSo /\ _sck = DemoSck)

\* C27: the two modes never touch each other's resources, in begin and in
\* readRawData: a software-SPI object never calls the SPI peripheral (begin,
\* beginTransaction, transfer16, endTransaction), and a hardware-SPI object
\* never configures, writes or reads the data and clock pin numbers it
\* stores, which are both 0.
C27_ModesKeepApart ==
  /\ ~_useHardwareSPI =>
       /\ ~spiBegun /\ ~spiInTransaction /\ spiTrace = <<>>
       /\ pc \notin {"bg_spiBegin", "rd_beginTransaction", "rd_transfer16",
                     "rd_endTransaction"}
  /\ _useHardwareSPI =>
       /\ _so = 0 /\ _sck = 0
       /\ pinsUsed \subseteq {_cs}
       /\ pinModes[0] = "UNSET" /\ pinLevels[0] = LOW
       /\ sampleClock = {}
       /\ pc \notin {"bg_pinModeSo", "bg_pinModeSck", "bg_sckLow", "rd_sckHigh",
                     "rd_sample", "rd_sckLow"}

\* a hardware-SPI object has been begun twice and is about to return its
\* second frame, having used its chip-select pin only
C27_Witness ==
  /\ _useHardwareSPI
  /\ pc = "rd_return"
  /\ begins = MaxBegins
  /\ reads = MaxReads
  /\ pinsUsed = {_cs}
  /\ spiBegun

\* C28: in every demonstration program the value passed to getChipID,
\* getColdJunctionTemperature and getTemperature is bit for bit the 32-bit
\* frame returned by the preceding readRawData call: no bit of the frame is
\* lost in the variable that holds it.
C28_DemoPassesFrameIntact ==
  [][(pc = "idle" /\ lastOp = "readRawData" /\ lastOp' \in DemoDecoders) =>
       lastArg' = result]_vars

\* C29: in the demo loop the frame whose thermocouple temperature is printed
\* has the fault classification OK: once the loop's guard, a
\* detectThermocouple() poll, has returned OK, the getTemperature that follows
\* the readRawData after it is never applied to a frame with bit 16 = 1,
\* whatever frames the chip presents in the successive transactions.
C29_GuardedFrameHasNoFault ==
  [][(/\ pc = "idle"
      /\ lastOp = "readRawData"
      /\ polledOk
      /\ lastOp' = "getTemperature") => bitRead(lastArg', 16) = 0]_vars
====
